---- MODULE Spec2Model ----
(***************************************************************************)
(* Model of the impact analyzers (analyzers.py), the self-healing loop     *)
(* (healing.py) and the self-healing LangGraph workflow (agent.py).        *)
(*                                                                         *)
(* Files are numbered 1..NumFiles in the order of their names, so that     *)
(* Python's sorted() on paths is the order of the numbers.  Code and test  *)
(* texts are numbered; what the text generator and the sandbox answer is   *)
(* an input of the operations.                                             *)
(***************************************************************************)
EXTENDS Integers, Sequences, FiniteSets, TLC

\* ---- bounds of the model ------------------------------------------------
NumFiles == 3          \* paths 1..NumFiles exist or not in the workspace
MaxImports == 2        \* import statements in the whole workspace
MaxCode == 1           \* code texts 0..MaxCode
MaxTest == 1           \* test texts 0..MaxTest
MaxRetriesCfg == 3     \* largest max_retries a SelfHealer is configured with
MaxLog == 5            \* longest error_logs explored in a workflow run
MaxMissing == 1        \* optional modules missing at once in a workflow run
MaxEditFiles == 2      \* paths 1..MaxEditFiles make up the trees that are edited
MaxLogTwoRuns == 1     \* longest error_logs of a run when two runs are interleaved
MaxSteps == 3          \* most steps of a plan
MaxStepId == 3         \* step ids 1..MaxStepId appear in a plan text
MaxMentions == 1       \* most "after Step N" mentions in a step description
MaxMarks == 4          \* completed_steps is explored up to MaxMarks
MaxTasks == 2          \* most tasks of the plan of a DeepAgent run
MaxTaskId == 2         \* task ids 1..MaxTaskId appear in its plan text
MaxContent == 3        \* most characters of the edited file
MaxSearch == 2         \* most characters of a search text
MaxReplace == 1        \* most characters of a replace text
MaxOccurrence == 2     \* occurrence arguments -MaxOccurrence..MaxOccurrence

File == 1..NumFiles
Codes == 0..MaxCode
Tests == 0..MaxTest

None == "None"   \* Python None where a string is expected
NoFile == 0      \* Python None where a path is expected

VARIABLES
    files,                  \* the *.py files of the workspace tree
    imports,                \* <<f, g>>: file f has an import naming path g
    TREE_SITTER_AVAILABLE,  \* analyzers.py module flag
    LSP_AVAILABLE,          \* analyzers.py module flag
    DOCKER_AVAILABLE,       \* healing.py module flag
    ANALYZERS_AVAILABLE,    \* agent.py module flag
    HEALING_AVAILABLE,      \* agent.py module flag
    DOC_SYNC_AVAILABLE,     \* agent.py module flag
    analyzer,               \* the SpeedAnalyzer under use: "none" | "ready"
    graph,                  \* its self.graph: [nodes, edges]
    call,                   \* the analyze or sandbox call of the last stage (Idle: its own code made none)
    result,                 \* the AnalysisResult it returned
    max_retries,            \* SelfHealer.max_retries of the healer under use
    heal_args,              \* arguments of the last heal call
    healing,                \* what the last heal call returned
    node,                   \* next stage of the workflow run
    state,                  \* the AgentState of the workflow run
    plan,                   \* planner.py: the Plan under execution
    next_step,              \* what the last get_next_step call returned
    todo_list,              \* deep_agent_core.py: the TodoList of DeepAgent.run
    task_files,             \* the task_<id>_result.txt files of its workspace
    agent_run,              \* DeepAgent.run: its step counter and where it stands
    file_content,           \* filesystem_tools.py: the text of the edited file
    edit_reply              \* what the last edit_file call returned

flags == <<TREE_SITTER_AVAILABLE, LSP_AVAILABLE, DOCKER_AVAILABLE,
           ANALYZERS_AVAILABLE, HEALING_AVAILABLE, DOC_SYNC_AVAILABLE>>
envVars == <<files, imports, flags>>
analyzerVars == <<analyzer, graph, call, result>>
healVars == <<max_retries, heal_args, healing>>
workflowVars == <<node, state>>
toolVars == <<plan, next_step, todo_list, task_files, agent_run, file_content, edit_reply>>
vars == <<files, imports, TREE_SITTER_AVAILABLE, LSP_AVAILABLE, DOCKER_AVAILABLE,
          ANALYZERS_AVAILABLE, HEALING_AVAILABLE, DOC_SYNC_AVAILABLE,
          analyzer, graph, call, result, max_retries, heal_args, healing, node, state,
          plan, next_step, todo_list, task_files, agent_run, file_content, edit_reply>>

\* ---- the workspace -------------------------------------------------------
\* Every tree over File with at most MaxImports import statements.  An import
\* may name a path that does not exist (an external package).
Workspaces ==
    { w \in [files : SUBSET File, imports : SUBSET (File \X File)] :
        /\ \A e \in w.imports : e[1] \in w.files
        /\ Cardinality(w.imports) <= MaxImports }

(***************************************************************************)
(* analyzers.py                                                            *)
(***************************************************************************)
EmptyGraph == [nodes |-> {}, edges |-> {}]

\* AnalysisResult(impacted_files, mode_used, analysis_time, error, warnings);
\* analysis_time is not modelled.
AnalysisResult(impacted, mode, error, warnings) ==
    [impacted_files |-> impacted, mode_used |-> mode, error |-> error,
     warnings |-> warnings]

\* SpeedAnalyzer._resolve_import_to_file: the path when the file exists.
_resolve_import_to_file(fs, module) == IF module \in fs THEN module ELSE NoFile

\* (variant: an edge that the graph already holds is dropped on a re-scan)
_extract_dependencies_Toggle(G, fs, imps, f) ==
    LET targets == { e[2] : e \in { x \in imps : x[1] = f
                                     /\ _resolve_import_to_file(fs, x[2]) # NoFile } }
        new == { <<f, t>> : t \in targets }
    IN  [nodes |-> G.nodes \cup {f} \cup targets,
         edges |-> (G.edges \ new) \cup (new \ G.edges)]

\* SpeedAnalyzer._extract_dependencies for one file: the file becomes a node
\* and every resolvable import an edge file -> imported file.
_extract_dependencies(G, fs, imps, f) ==
    LET targets == { e[2] : e \in { x \in imps : x[1] = f
                                     /\ _resolve_import_to_file(fs, x[2]) # NoFile } }
    IN  [nodes |-> G.nodes \cup {f} \cup targets,
         edges |-> G.edges \cup { <<f, t>> : t \in targets }]

\* SpeedAnalyzer._build_dependency_graph: every file of the tree is parsed
\* into the graph the analyzer already holds.
RECURSIVE BuildFrom(_, _, _, _)
BuildFrom(G, fs, imps, todo) ==
    IF todo = {} THEN G
    ELSE LET f == CHOOSE x \in todo : \A y \in todo : x <= y
         IN  BuildFrom(_extract_dependencies(G, fs, imps, f), fs, imps, todo \ {f})

_build_dependency_graph(G, fs, imps) == BuildFrom(G, fs, imps, fs)

\* networkx.descendants: the nodes reachable from source along edges, source
\* excluded.
RECURSIVE Reach(_, _, _)
Reach(edges, frontier, seen) ==
    LET nxt == { e[2] : e \in { x \in edges : x[1] \in frontier } } \ seen
    IN  IF nxt = {} THEN seen ELSE Reach(edges, nxt, seen \cup nxt)

\* (variant: the traversal does not start from the source as visited)
descendants_KeepsSource(G, source) == Reach(G.edges, {source}, {})

descendants(G, source) == Reach(G.edges, {source}, {source}) \ {source}

\* Python sorted() of a set of paths.
RECURSIVE sorted(_)
sorted(S) ==
    IF S = {} THEN <<>>
    ELSE LET m == CHOOSE x \in S : \A y \in S : x <= y
         IN  <<m>> \o sorted(S \ {m})

\* (variant: a file unknown to the graph has no impacted files)
_find_impacted_files_EmptyWhenUnknown(G, changed_file) ==
    IF changed_file \notin G.nodes THEN <<>>
    ELSE <<changed_file>> \o sorted(descendants(G, changed_file))

\* SpeedAnalyzer._find_impacted_files
_find_impacted_files(G, changed_file) ==
    IF changed_file \notin G.nodes THEN <<changed_file>>
    ELSE <<changed_file>> \o sorted(descendants(G, changed_file))

\* (variant: a failed walk of the tree is reported without an error)
SpeedAnalyze_SwallowsFailure(G, fs, imps, changed_file, scan) ==
    IF scan = "raise"
    THEN [graph |-> G, result |-> AnalysisResult(<<>>, "SPEED", None, <<>>)]
    ELSE LET G2 == _build_dependency_graph(G, fs, imps)
         IN  [graph |-> G2,
              result |-> AnalysisResult(_find_impacted_files(G2, changed_file),
                                        "SPEED", None, <<>>)]

\* SpeedAnalyzer.analyze: the graph after the call and the result.  scan is
\* "ok", or "raise" when walking the tree raises (unreadable directory).
SpeedAnalyze(G, fs, imps, changed_file, scan) ==
    IF scan = "raise"
    THEN [graph |-> G, result |-> AnalysisResult(<<>>, "SPEED", "scan failed", <<>>)]
    ELSE LET G2 == _build_dependency_graph(G, fs, imps)
         IN  [graph |-> G2,
              result |-> AnalysisResult(_find_impacted_files(G2, changed_file),
                                        "SPEED", None, <<>>)]

\* PrecisionAnalyzer._simulate_lsp_analysis
_simulate_lsp_analysis(changed_file) == <<changed_file>>

\* PrecisionAnalyzer.analyze.  lsp is "ok", or "raise" when the reference
\* lookup raises.  The flag LSP_AVAILABLE only changes what __init__ logs.
PrecisionAnalyze(lspAvailable, changed_file, lsp) ==
    IF lsp = "raise"
    THEN AnalysisResult(<<>>, "PRECISION", "lsp failed", <<>>)
    ELSE AnalysisResult(_simulate_lsp_analysis(changed_file), "PRECISION", None,
                        <<"Using simulated LSP analysis">>)

\* ---- specification of the analyzers on their own --------------------------
NoResult == [none |-> TRUE]
Idle == [none |-> TRUE]

\* no plan, no DeepAgent run and no file edit is under way
NoTools ==
    /\ plan = Idle /\ next_step = Idle
    /\ todo_list = Idle /\ task_files = Idle /\ agent_run = Idle
    /\ file_content = Idle /\ edit_reply = Idle

\* The flags that play no part in a specification are set.
InitAnalyzers ==
    /\ \E w \in Workspaces : files = w.files /\ imports = w.imports
    /\ TREE_SITTER_AVAILABLE \in BOOLEAN
    /\ LSP_AVAILABLE \in BOOLEAN
    /\ DOCKER_AVAILABLE = TRUE
    /\ ANALYZERS_AVAILABLE = TRUE /\ HEALING_AVAILABLE = TRUE
    /\ DOC_SYNC_AVAILABLE = TRUE
    /\ analyzer = "none" /\ graph = EmptyGraph /\ call = Idle /\ result = NoResult
    /\ NoTools
    /\ max_retries = 3 /\ heal_args = Idle /\ healing = Idle
    /\ node = "idle" /\ state = Idle

\* SpeedAnalyzer.__init__: raises when tree-sitter/networkx are missing.
NewSpeedAnalyzer ==
    /\ TREE_SITTER_AVAILABLE
    /\ analyzer' = "ready"
    /\ graph' = EmptyGraph
    /\ call' = Idle
    /\ result' = NoResult
    /\ UNCHANGED <<envVars, healVars, workflowVars, toolVars>>

\* analyzer.analyze(changed_file) on the SpeedAnalyzer under use
SpeedAnalyzerAnalyze ==
    /\ analyzer = "ready"
    /\ \E f \in File, scan \in {"ok", "raise"} :
         LET r == SpeedAnalyze(graph, files, imports, f, scan)
         IN  /\ graph' = r.graph
             /\ call' = [changed_file |-> f, scan |-> scan]
             /\ result' = r.result
    /\ UNCHANGED <<envVars, analyzer, healVars, workflowVars, toolVars>>

\* PrecisionAnalyzer(...).analyze(changed_file)
PrecisionAnalyzerAnalyze ==
    /\ \E f \in File, lsp \in {"ok", "raise"} :
         /\ call' = [changed_file |-> f, lsp |-> lsp]
         /\ result' = PrecisionAnalyze(LSP_AVAILABLE, f, lsp)
    /\ UNCHANGED <<envVars, analyzer, graph, healVars, workflowVars, toolVars>>

NextAnalyzers == NewSpeedAnalyzer \/ SpeedAnalyzerAnalyze \/ PrecisionAnalyzerAnalyze

SpecAnalyzers == InitAnalyzers /\ [][NextAnalyzers]_vars

(***************************************************************************)
(* healing.py                                                              *)
(***************************************************************************)
\* ---- specification of an analyzer on a workspace that is edited ------------
\* the trees over the first MaxEditFiles paths
EditTrees ==
    { w \in Workspaces :
        /\ w.files \subseteq 1..MaxEditFiles
        /\ \A e \in w.imports : e[2] \in 1..MaxEditFiles }

InitEdits ==
    /\ \E w \in EditTrees : files = w.files /\ imports = w.imports
    /\ TREE_SITTER_AVAILABLE = TRUE /\ LSP_AVAILABLE = TRUE
    /\ DOCKER_AVAILABLE = TRUE
    /\ ANALYZERS_AVAILABLE = TRUE /\ HEALING_AVAILABLE = TRUE
    /\ DOC_SYNC_AVAILABLE = TRUE
    /\ analyzer = "none" /\ graph = EmptyGraph /\ call = Idle /\ result = NoResult
    /\ NoTools
    /\ max_retries = 3 /\ heal_args = Idle /\ healing = Idle
    /\ node = "idle" /\ state = Idle

\* Files and import statements are added to and removed from the tree
\* between two calls: the tree that the next rglob finds is another one.
EditWorkspace ==
    /\ \E w \in EditTrees :
         /\ <<w.files, w.imports>> # <<files, imports>>
         /\ files' = w.files
         /\ imports' = w.imports
    /\ UNCHANGED <<flags, analyzerVars, healVars, workflowVars, toolVars>>

NextEdits == NewSpeedAnalyzer \/ SpeedAnalyzerAnalyze \/ EditWorkspace

SpecEdits == InitEdits /\ [][NextEdits]_vars

\* What one sandbox run can do when the container library is installed:
\* the tests pass, the tests fail, the container times out, or the container
\* service fails (docker.errors.DockerException, ContainerError, any other).
Outcome == {"passed", "failed", "timeout", "unavailable"}

Raised == [raised |-> TRUE]

TestResult(success, stderr, returncode) ==
    [raised |-> FALSE, success |-> success, stderr |-> stderr,
     returncode |-> returncode]

\* (variant: a run that timed out is reported as a passing run)
execute_TimeoutPasses(docker_available, outcome) ==
    IF ~docker_available THEN Raised
    ELSE CASE outcome = "passed"      -> TestResult(TRUE, "", 0)
           [] outcome = "failed"      -> TestResult(FALSE, "FAILED", 1)
           [] outcome = "timeout"     -> TestResult(TRUE, "timeout", -1)
           [] outcome = "unavailable" -> TestResult(FALSE, "Docker not available", -1)

\* TestExecutor.execute
execute(docker_available, outcome) ==
    IF ~docker_available THEN Raised
    ELSE CASE outcome = "passed"      -> TestResult(TRUE, "", 0)
           [] outcome = "failed"      -> TestResult(FALSE, "FAILED", 1)
           [] outcome = "timeout"     -> TestResult(FALSE, "timeout", -1)
           [] outcome = "unavailable" -> TestResult(FALSE, "Docker not available", -1)

LogEntry(tag, n) == [tag |-> tag, n |-> n]
NoReason == LogEntry("None", 0)

\* (variant: attempts numbered from 1)
CodeHistoryOneBased(attempt, code, fix_reason, test_result) ==
    [attempt |-> attempt + 1, code |-> code, fix_reason |-> fix_reason,
     test_result |-> test_result]

CodeHistory(attempt, code, fix_reason, test_result) ==
    [attempt |-> attempt, code |-> code, fix_reason |-> fix_reason,
     test_result |-> test_result]

\* (variant: the result does not carry the tests of the session)
HealingResult_DefaultTests(success, final_code, final_tests, retry_count, history, error_logs) ==
    [raised |-> FALSE, success |-> success, final_code |-> final_code,
     final_tests |-> 0, retry_count |-> retry_count,
     history |-> history, error_logs |-> error_logs]

\* (variant: a failed session hands back the code of attempt 0)
HealingResultFirstCode(success, final_code, final_tests, retry_count, history, error_logs) ==
    [raised |-> FALSE, success |-> success,
     final_code |-> IF success THEN final_code ELSE history[1].code,
     final_tests |-> final_tests, retry_count |-> retry_count,
     history |-> history, error_logs |-> error_logs]

HealingResult(success, final_code, final_tests, retry_count, history, error_logs) ==
    [raised |-> FALSE, success |-> success, final_code |-> final_code,
     final_tests |-> final_tests, retry_count |-> retry_count,
     history |-> history, error_logs |-> error_logs]

\* SelfHealer._generate_fix: the code extracted from the generator's answer.
_generate_fix(code, tests, error_message, attempt, response) == response

\* (variant: the loop runs until the count meets the ceiling)
WhileCondition_UntilEqual(maxRetries, retry_count, test_result) ==
    retry_count # maxRetries /\ ~test_result.success

\* (variant: the loop gives up when the sandbox itself was not available)
WhileCondition_GivesUpOnSandboxError(maxRetries, retry_count, test_result) ==
    /\ retry_count < maxRetries
    /\ ~test_result.success
    /\ test_result.stderr # "Docker not available"

\* (variant: the loop test admits one retry too many)
WhileConditionInclusive(maxRetries, retry_count, test_result) ==
    retry_count <= maxRetries /\ ~test_result.success

\* the test of the while loop of SelfHealer.heal
WhileCondition(maxRetries, retry_count, test_result) ==
    retry_count < maxRetries /\ ~test_result.success

\* The loop wants an answer or a sandbox run that the call's inputs lack.
Starved == [raised |-> FALSE, starved |-> TRUE]

\* The requests heal makes to its collaborators, in the order it makes them.
\* self.executor.execute(current_code, current_tests)
SandboxRequest(current_code, current_tests) ==
    [fn |-> "execute", code |-> current_code, tests |-> current_tests,
     error_message |-> "", attempt |-> 0]

\* (variant: every fix is requested for the code heal was given)
FixRequest_OriginalCode(h, retry_count) ==
    [fn |-> "_generate_fix", code |-> h.history[1].code, tests |-> h.current_tests,
     error_message |-> h.test_result.stderr, attempt |-> retry_count]

\* self._generate_fix(code=current_code, tests=current_tests,
\*                    error_message=test_result.stderr, ..., attempt=retry_count)
FixRequest(h, retry_count) ==
    [fn |-> "_generate_fix", code |-> h.current_code, tests |-> h.current_tests,
     error_message |-> h.test_result.stderr, attempt |-> retry_count]

\* what heal returned together with the requests it made
Observed(healing_result, calls) == [calls |-> calls] @@ healing_result

\* The while loop of SelfHealer.heal, from the loop test on.  h holds the
\* locals of heal; fixes[i] is the generator's answer at retry i and
\* outs[i + 1] the sandbox's outcome for it.
RECURSIVE HealLoop(_, _, _, _)
HealLoop(maxRetries, h, fixes, outs) ==
    IF WhileCondition(maxRetries, h.retry_count, h.test_result)
    THEN LET retry_count == h.retry_count + 1
         IN  IF retry_count \notin DOMAIN fixes THEN Starved
             ELSE
             LET error_summary == LogEntry("Attempt", retry_count)
                 error_logs == Append(h.error_logs, error_summary)
                 current_code == _generate_fix(h.current_code, h.current_tests,
                                               h.test_result.stderr, retry_count,
                                               fixes[retry_count])
                 test_result == execute(TRUE, outs[retry_count + 1])
                 history == Append(h.history,
                                   CodeHistory(retry_count, current_code,
                                               error_summary, test_result))
                 calls == h.calls \o <<FixRequest(h, retry_count),
                                       SandboxRequest(current_code, h.current_tests)>>
             IN  IF test_result.success
                 THEN Observed(HealingResult(TRUE, current_code, h.current_tests,
                                             retry_count, history, error_logs),
                               calls)
                 ELSE HealLoop(maxRetries,
                               [h EXCEPT !.retry_count = retry_count,
                                         !.error_logs = error_logs,
                                         !.current_code = current_code,
                                         !.test_result = test_result,
                                         !.history = history,
                                         !.calls = calls],
                               fixes, outs)
    ELSE Observed(HealingResult(FALSE, h.current_code, h.current_tests,
                                h.retry_count, h.history, h.error_logs),
                  h.calls)

\* SelfHealer.heal(code, tests, original_request) of a healer configured with
\* maxRetries, given the generator's answers and the sandbox's outcomes: the
\* HealingResult it returns, or Raised when the sandbox call raises.
heal(maxRetries, docker_available, code, tests, fixes, outs) ==
    LET test_result == execute(docker_available, outs[1])
        history == <<CodeHistory(0, code, NoReason, test_result)>>
        calls == <<SandboxRequest(code, tests)>>
    IN  IF test_result.raised THEN Raised
        ELSE IF test_result.success
        THEN Observed(HealingResult(TRUE, code, tests, 0, history, <<>>), calls)
        ELSE HealLoop(maxRetries,
                      [current_code |-> code, current_tests |-> tests,
                       history |-> history, error_logs |-> <<>>,
                       retry_count |-> 0, test_result |-> test_result,
                       calls |-> calls],
                      fixes, outs)

\* the number of generator answers a call used
Consumed(r) == IF r.raised THEN 0 ELSE r.retry_count

\* A call that is given n answers and n + 1 outcomes and uses all of them.
Exact(r, n) == r # Starved /\ Consumed(r) = n

\* ---- specification of a healer on its own ---------------------------------
InitHeal ==
    /\ files = {} /\ imports = {}
    /\ TREE_SITTER_AVAILABLE = TRUE /\ LSP_AVAILABLE = TRUE
    /\ DOCKER_AVAILABLE \in BOOLEAN
    /\ ANALYZERS_AVAILABLE = TRUE /\ HEALING_AVAILABLE = TRUE
    /\ DOC_SYNC_AVAILABLE = TRUE
    /\ analyzer = "none" /\ graph = EmptyGraph /\ call = Idle /\ result = NoResult
    /\ NoTools
    /\ max_retries \in -1..MaxRetriesCfg        \* SelfHealer(llm, max_retries)
    /\ heal_args = Idle /\ healing = Idle
    /\ node = "idle" /\ state = Idle

\* healer.heal(code, tests, request), on the first or the last code text and
\* the first or the last test text
HealCall ==
    /\ heal_args = Idle
    /\ \E code \in {0, MaxCode}, tests \in {0, MaxTest} :
         \E n \in 0..MaxRetriesCfg :
           \E fixes \in [1..n -> Codes], outs \in [1..(n + 1) -> Outcome] :
             LET r == heal(max_retries, DOCKER_AVAILABLE, code, tests, fixes, outs)
             IN  /\ Exact(r, n)
                 /\ heal_args' = [code |-> code, tests |-> tests]
                 /\ healing' = r
    /\ UNCHANGED <<envVars, analyzerVars, max_retries, workflowVars, toolVars>>

NextHeal == HealCall

SpecHeal == InitHeal /\ [][NextHeal]_vars

(***************************************************************************)
(* agent.py: the stages, the routing functions and the graph built by      *)
(* create_self_healing_agent                                               *)
(***************************************************************************)
\* dict.get(key, default)
Get(d, key, default) == IF key \in DOMAIN d THEN d[key] ELSE default

\* LangGraph merges the update a stage returns into the state key by key; no
\* key of AgentState other than messages has a reducer, so the update wins.
Merge(s, update) == update @@ s

\* speed_analysis_node.  A new SpeedAnalyzer is built on every call.
speed_analysis_node(s, fs, imps, treeSitter, scan) ==
    IF ~ANALYZERS_AVAILABLE
    THEN [impacted_files |-> <<Get(s, "changed_file", NoFile)>>,
          error_logs |-> Append(Get(s, "error_logs", <<>>),
                                LogEntry("Analyzers not available", 0)),
          analysis_result |-> [error |-> "Analyzers not installed"]]
    ELSE IF ~treeSitter
    THEN [impacted_files |-> <<>>,
          error_logs |-> Append(Get(s, "error_logs", <<>>),
                                LogEntry("SPEED analysis error", 0)),
          analysis_result |-> [error |-> "Tree-sitter not installed"]]
    ELSE LET r == SpeedAnalyze(EmptyGraph, fs, imps,
                               Get(s, "changed_file", NoFile), scan).result
         IN  [impacted_files |-> r.impacted_files,
              analysis_result |-> [mode |-> r.mode_used, error |-> r.error,
                                   warnings |-> r.warnings]]

\* (variant: a failed precise analysis counts as a healing retry)
precision_analysis_node_CountsRetry(s, lspAvailable, outcome) ==
    IF ~ANALYZERS_AVAILABLE
    THEN [impacted_files |-> <<Get(s, "changed_file", NoFile)>>,
          error_logs |-> Append(Get(s, "error_logs", <<>>),
                                LogEntry("Analyzers not available", 0)),
          analysis_result |-> [error |-> "Analyzers not installed"]]
    ELSE IF outcome = "raise"
    THEN [impacted_files |-> <<>>,
          retry_count |-> Get(s, "retry_count", 0) + 1,
          error_logs |-> Append(Get(s, "error_logs", <<>>),
                                LogEntry("PRECISION analysis error", 0)),
          analysis_result |-> [error |-> "exception", should_fallback |-> TRUE]]
    ELSE LET r == PrecisionAnalyze(lspAvailable, Get(s, "changed_file", NoFile),
                                   IF outcome = "lsp_raise" THEN "raise" ELSE "ok")
         IN  IF r.error # None
             THEN [impacted_files |-> <<>>,
                   retry_count |-> Get(s, "retry_count", 0) + 1,
                   error_logs |-> Append(Get(s, "error_logs", <<>>),
                                         LogEntry("PRECISION error", 0)),
                   analysis_result |-> [mode |-> "PRECISION", error |-> r.error,
                                        should_fallback |-> TRUE]]
             ELSE [impacted_files |-> r.impacted_files,
                   analysis_result |-> [mode |-> r.mode_used, error |-> r.error,
                                        warnings |-> r.warnings]]

\* precision_analysis_node.  outcome: "ok", "lsp_raise" (the reference lookup
\* inside analyze raises) or "raise" (an exception leaves the analyzer).
precision_analysis_node(s, lspAvailable, outcome) ==
    IF ~ANALYZERS_AVAILABLE
    THEN [impacted_files |-> <<Get(s, "changed_file", NoFile)>>,
          error_logs |-> Append(Get(s, "error_logs", <<>>),
                                LogEntry("Analyzers not available", 0)),
          analysis_result |-> [error |-> "Analyzers not installed"]]
    ELSE IF outcome = "raise"
    THEN [impacted_files |-> <<>>,
          error_logs |-> Append(Get(s, "error_logs", <<>>),
                                LogEntry("PRECISION analysis error", 0)),
          analysis_result |-> [error |-> "exception", should_fallback |-> TRUE]]
    ELSE LET r == PrecisionAnalyze(lspAvailable, Get(s, "changed_file", NoFile),
                                   IF outcome = "lsp_raise" THEN "raise" ELSE "ok")
         IN  IF r.error # None
             THEN [impacted_files |-> <<>>,
                   error_logs |-> Append(Get(s, "error_logs", <<>>),
                                         LogEntry("PRECISION error", 0)),
                   analysis_result |-> [mode |-> "PRECISION", error |-> r.error,
                                        should_fallback |-> TRUE]]
             ELSE [impacted_files |-> r.impacted_files,
                   analysis_result |-> [mode |-> r.mode_used, error |-> r.error,
                                        warnings |-> r.warnings]]

\* (variant: a missing mode defaults to PRECISION)
route_by_mode_DefaultPrecision(s) ==
    LET mode == Get(s, "mode", "PRECISION")
    IN  IF mode = "SPEED" THEN "speed_analysis"
        ELSE IF mode = "PRECISION" THEN "precision_analysis"
        ELSE "speed_analysis"

\* route_by_mode
route_by_mode(s) ==
    LET mode == Get(s, "mode", "SPEED")
    IN  IF mode = "SPEED" THEN "speed_analysis"
        ELSE IF mode = "PRECISION" THEN "precision_analysis"
        ELSE "speed_analysis"

\* (variant: the impacted files are looked at before the fallback signal)
check_precision_fallback_FilesFirst(s) ==
    LET analysis_result == Get(s, "analysis_result", [none |-> TRUE])
    IN  IF Get(s, "impacted_files", <<>>) # <<>> THEN "code_agent"
        ELSE IF Get(analysis_result, "should_fallback", FALSE) THEN "fallback_to_speed"
        ELSE "end"

\* (variant: the fallback signal is read under another key)
check_precision_fallback_WrongKey(s) ==
    LET analysis_result == Get(s, "analysis_result", [none |-> TRUE])
    IN  IF Get(analysis_result, "fallback", FALSE) THEN "fallback_to_speed"
        ELSE IF Get(s, "impacted_files", <<>>) # <<>> THEN "code_agent"
        ELSE "end"

\* check_precision_fallback
check_precision_fallback(s) ==
    LET analysis_result == Get(s, "analysis_result", [none |-> TRUE])
    IN  IF Get(analysis_result, "should_fallback", FALSE) THEN "fallback_to_speed"
        ELSE IF Get(s, "impacted_files", <<>>) # <<>> THEN "code_agent"
        ELSE "end"

\* code_generation_node; code is what CodeGenerator.generate returns
code_generation_node(s, code) ==
    IF ~HEALING_AVAILABLE
    THEN [error_logs |-> Append(Get(s, "error_logs", <<>>),
                                LogEntry("Healing module not available", 0))]
    ELSE [generated_code |-> code]

\* test_generation_node; tests is what TestGenerator.generate returns
test_generation_node(s, tests) ==
    IF ~HEALING_AVAILABLE
    THEN [error_logs |-> Append(Get(s, "error_logs", <<>>),
                                LogEntry("Healing module not available", 0))]
    ELSE [generated_tests |-> tests]

\* (variant: the stage runs the tests on the default code)
execute_tests_call_DefaultCode(s) ==
    SandboxRequest(0, Get(s, "generated_tests", 0))

\* execute_tests_node: the arguments of its executor.execute call
execute_tests_call(s) ==
    SandboxRequest(Get(s, "generated_code", 0), Get(s, "generated_tests", 0))

\* execute_tests_node; r is what TestExecutor.execute returned
execute_tests_node(s, r) ==
    IF ~HEALING_AVAILABLE
    THEN [error_logs |-> Append(Get(s, "error_logs", <<>>),
                                LogEntry("Healing module not available", 0))]
    ELSE [test_results |-> [success |-> r.success, stderr |-> r.stderr,
                            returncode |-> r.returncode]]

\* (variant: the retries of a session are added to the count of the run)
self_healing_node_Accumulate(s, r) ==
    IF ~HEALING_AVAILABLE
    THEN [error_logs |-> Append(Get(s, "error_logs", <<>>),
                                LogEntry("Healing module not available", 0))]
    ELSE [generated_code |-> r.final_code,
          retry_count |-> Get(s, "retry_count", 0) + r.retry_count,
          error_logs |-> Get(s, "error_logs", <<>>) \o r.error_logs,
          healing_result |-> [success |-> r.success,
                              retry_count |-> r.retry_count,
                              error_logs |-> r.error_logs]]

\* (variant: the stage returns the log of the session alone)
self_healing_node_DropsLogs(s, r) ==
    IF ~HEALING_AVAILABLE
    THEN [error_logs |-> Append(Get(s, "error_logs", <<>>),
                                LogEntry("Healing module not available", 0))]
    ELSE [generated_code |-> r.final_code,
          retry_count |-> r.retry_count,
          error_logs |-> r.error_logs,
          healing_result |-> [success |-> r.success,
                              retry_count |-> r.retry_count,
                              error_logs |-> r.error_logs]]

\* self_healing_node; r is what SelfHealer(llm, max_retries=3).heal returned
self_healing_node(s, r) ==
    IF ~HEALING_AVAILABLE
    THEN [error_logs |-> Append(Get(s, "error_logs", <<>>),
                                LogEntry("Healing module not available", 0))]
    ELSE [generated_code |-> r.final_code,
          retry_count |-> r.retry_count,
          error_logs |-> Get(s, "error_logs", <<>>) \o r.error_logs,
          healing_result |-> [success |-> r.success,
                              retry_count |-> r.retry_count,
                              error_logs |-> r.error_logs]]

\* (variant: the ceiling test lets a run at the ceiling heal once more)
check_test_result_StrictCeiling(s) ==
    LET test_results == Get(s, "test_results", [none |-> TRUE])
        retry_count == Get(s, "retry_count", 0)
    IN  IF Get(test_results, "success", FALSE) THEN "doc_sync"
        ELSE IF retry_count > 3 THEN "doc_sync"
        ELSE "heal"

\* check_test_result
check_test_result(s) ==
    LET test_results == Get(s, "test_results", [none |-> TRUE])
        retry_count == Get(s, "retry_count", 0)
    IN  IF Get(test_results, "success", FALSE) THEN "doc_sync"
        ELSE IF retry_count >= 3 THEN "doc_sync"
        ELSE "heal"

\* doc_sync_node; changes is what the synchronizer detected
doc_sync_node(s, changes) ==
    IF ~DOC_SYNC_AVAILABLE
    THEN [error_logs |-> Append(Get(s, "error_logs", <<>>),
                                LogEntry("Doc sync module not available", 0))]
    ELSE [doc_sync_result |-> [changes_detected |-> changes]]

\* ---- the graph of create_self_healing_agent -------------------------------
START == "__start__"
END == "__end__"

\* the mapping of the conditional edges after precision_analysis
AfterPrecision(s) ==
    LET route == check_precision_fallback(s)
    IN  IF route = "fallback_to_speed" THEN "speed_analysis"
        ELSE IF route = "code_agent" THEN "code_generation"
        ELSE END

\* the mapping of the conditional edges after execute_tests
AfterExecuteTests(s) ==
    IF check_test_result(s) = "doc_sync" THEN "doc_sync" ELSE "self_healing"

\* The fields of a HealingResult that self_healing_node reads.
Returned(r) ==
    IF r.raised THEN Raised
    ELSE [raised |-> FALSE, success |-> r.success, final_code |-> r.final_code,
          retry_count |-> r.retry_count, error_logs |-> r.error_logs]

\* healer = SelfHealer(llm, max_retries=3); healer.heal(code, tests, request):
\* what the call can return, for every code, tests and container library flag.
HealReturns ==
    [d \in BOOLEAN, code \in Codes, tests \in Tests |->
        UNION { { Returned(heal(3, d, code, tests, p[1], p[2])) :
                    p \in { q \in [1..n -> Codes] \X [1..(n + 1) -> Outcome] :
                              Exact(heal(3, d, code, tests, q[1], q[2]), n) } } :
                n \in 0..3 }]

\* ---- specification of the routing functions on their own ------------------
\* An AgentState is a dict of which any key may be missing.
EmptyDict == [k \in {} |-> 0]

Opt(key, values) == {EmptyDict} \cup { key :> v : v \in values }

\* the analysis_result dicts the stages write, and some they do not
Metas ==
    {EmptyDict, [should_fallback |-> TRUE], [should_fallback |-> FALSE],
     [error |-> "exception", should_fallback |-> TRUE],
     [error |-> "Analyzers not installed"],
     [mode |-> "PRECISION", error |-> None]}

RoutingStates ==
    { m @@ a @@ i @@ t @@ r :
        m \in Opt("mode", {"SPEED", "PRECISION", "TURBO"}),
        a \in Opt("analysis_result", Metas),
        i \in Opt("impacted_files", {<<>>, <<1>>}),
        t \in Opt("test_results", {EmptyDict, [success |-> TRUE], [success |-> FALSE]}),
        r \in Opt("retry_count", 0..(MaxRetriesCfg + 1)) }

InitRouting ==
    /\ files = {} /\ imports = {}
    /\ TREE_SITTER_AVAILABLE = TRUE /\ LSP_AVAILABLE = TRUE
    /\ DOCKER_AVAILABLE = TRUE
    /\ ANALYZERS_AVAILABLE = TRUE /\ HEALING_AVAILABLE = TRUE
    /\ DOC_SYNC_AVAILABLE = TRUE
    /\ analyzer = "none" /\ graph = EmptyGraph /\ call = Idle /\ result = NoResult
    /\ NoTools
    /\ max_retries = 3 /\ heal_args = Idle /\ healing = Idle
    /\ node = "input"
    /\ state \in RoutingStates

\* The engine evaluates the routing function of a conditional edge on the
\* state and takes the stage the edge's mapping gives.
Routed(route, next) ==
    /\ node = "input"
    /\ call' = [route |-> route]
    /\ node' = next
    /\ UNCHANGED <<envVars, analyzer, graph, result, healVars, state, toolVars>>

RouteByMode == Routed("route_by_mode", route_by_mode(state))

CheckPrecisionFallback == Routed("check_precision_fallback", AfterPrecision(state))

CheckTestResult == Routed("check_test_result", AfterExecuteTests(state))

NextRouting == RouteByMode \/ CheckPrecisionFallback \/ CheckTestResult

SpecRouting == InitRouting /\ [][NextRouting]_vars

\* The workflow runs on the Scenario-A chain (file i+1 imports file i) over
\* all paths but the last, which is not in the tree.
ChainTree ==
    [files |-> 1..(NumFiles - 1),
     imports |-> { <<i + 1, i>> : i \in 1..(NumFiles - 2) }]

Modes == {"SPEED", "PRECISION", "TURBO"}

Missing(fl) == Cardinality({ i \in 1..Len(fl) : ~fl[i] })

\* agent.invoke(initial_state): the initial state the demos pass, with
\* retry_count 0 and empty logs; mode may be missing.
Init ==
    /\ files = ChainTree.files /\ imports = ChainTree.imports
    /\ TREE_SITTER_AVAILABLE \in BOOLEAN
    /\ LSP_AVAILABLE \in BOOLEAN
    /\ DOCKER_AVAILABLE \in BOOLEAN
    /\ ANALYZERS_AVAILABLE \in BOOLEAN
    /\ HEALING_AVAILABLE \in BOOLEAN
    /\ DOC_SYNC_AVAILABLE \in BOOLEAN
    /\ Missing(flags) <= MaxMissing
    /\ analyzer = "none" /\ graph = EmptyGraph /\ call = Idle /\ result = NoResult
    /\ NoTools
    /\ max_retries = 3 /\ heal_args = Idle /\ healing = Idle
    /\ node = START
    /\ \E f \in File :
         LET base == [changed_file |-> f, impacted_files |-> <<>>,
                      retry_count |-> 0, error_logs |-> <<>>]
         IN  state \in {base} \cup { [mode |-> m] @@ base : m \in Modes }

frame == <<envVars, analyzerVars, healVars, toolVars>>

\* The engine merges the update of a stage and moves to the stage the edges
\* name.  Runs are explored while error_logs has at most MaxLog entries.
Step(update, next) ==
    /\ state' = Merge(state, update)
    /\ Len(Get(state', "error_logs", <<>>)) <= MaxLog
    /\ node' = next
    /\ UNCHANGED frame

\* The same with the sandbox call the stage's own code made: c is the call,
\* its arguments and what it returned, or Idle for a stage that calls
\* TestExecutor.execute only inside SelfHealer.heal.
StepAfterCall(update, next, c) ==
    /\ state' = Merge(state, update)
    /\ Len(Get(state', "error_logs", <<>>)) <= MaxLog
    /\ node' = next
    /\ call' = c
    /\ UNCHANGED <<envVars, analyzer, graph, result, healVars, toolVars>>

\* An exception leaves the stage and ends the run.
Raise ==
    /\ node' = "raised"
    /\ UNCHANGED <<state, frame>>

\* the conditional entry point
Invoke ==
    /\ node = START
    /\ node' = route_by_mode(state)
    /\ UNCHANGED <<state, frame>>

SpeedAnalysis ==
    /\ node = "speed_analysis"
    /\ \E scan \in {"ok", "raise"} :
         Step(speed_analysis_node(state, files, imports, TREE_SITTER_AVAILABLE, scan),
              "code_generation")

PrecisionAnalysis ==
    /\ node = "precision_analysis"
    /\ \E outcome \in {"ok", "lsp_raise", "raise"} :
         LET update == precision_analysis_node(state, LSP_AVAILABLE, outcome)
         IN  Step(update, AfterPrecision(Merge(state, update)))

CodeGeneration ==
    /\ node = "code_generation"
    /\ \E code \in Codes :
         Step(code_generation_node(state, code), "test_generation")

TestGeneration ==
    /\ node = "test_generation"
    /\ \E tests \in Tests :
         Step(test_generation_node(state, tests), "execute_tests")

\* execute_tests: the ImportError of a missing container library leaves the
\* stage.
ExecuteTests ==
    /\ node = "execute_tests"
    /\ \E out \in Outcome :
         LET r == execute(DOCKER_AVAILABLE, out)
             update == execute_tests_node(state, r)
             next == AfterExecuteTests(Merge(state, update))
         IN  IF HEALING_AVAILABLE /\ r.raised THEN Raise
             ELSE IF HEALING_AVAILABLE
             THEN StepAfterCall(update, next,
                                [request |-> execute_tests_call(state),
                                 returned |-> update.test_results])
             ELSE Step(update, next)

SelfHealing ==
    /\ node = "self_healing"
    /\ \E r \in HealReturns[DOCKER_AVAILABLE, Get(state, "generated_code", 0),
                            Get(state, "generated_tests", 0)] :
         IF HEALING_AVAILABLE /\ r.raised THEN Raise
         ELSE StepAfterCall(self_healing_node(state, r), "execute_tests", Idle)

DocSync ==
    /\ node = "doc_sync"
    /\ \E changes \in BOOLEAN : Step(doc_sync_node(state, changes), END)

Next ==
    \/ Invoke
    \/ SpeedAnalysis
    \/ PrecisionAnalysis
    \/ CodeGeneration
    \/ TestGeneration
    \/ ExecuteTests
    \/ SelfHealing
    \/ DocSync

Spec == Init /\ [][Next]_vars

\* The engine runs the next stage of a run as long as there is one.
FairSpec == Spec /\ WF_vars(Next)

(***************************************************************************)
(* Properties                                                              *)
(***************************************************************************)
HealReturned == heal_args # Idle /\ ~healing.raised

AllFailed(history) == \A i \in 1..Len(history) : ~history[i].test_result.success

\* C1: every HealingResult that heal returns has 0 <= retry_count, and
\* retry_count <= max_retries for every non-negative max_retries; with the
\* default ceiling of 3 that is retry_count <= 3, also when the sandbox never
\* reports success.
C1_RetryCountWithinCeiling ==
    HealReturned =>
        /\ 0 <= healing.retry_count
        /\ max_retries >= 0 => healing.retry_count <= max_retries
        /\ max_retries = 3 => healing.retry_count <= 3

\* a session of the default healer in which no sandbox run passed
C1_Witness ==
    /\ HealReturned
    /\ max_retries = 3
    /\ AllFailed(healing.history)
    /\ healing.retry_count = 3

\* C8: the history of every HealingResult has retry_count + 1 records, with
\* attempts 0, 1, ..., retry_count in order; a pass at attempt 0 gives
\* success, retry_count 0 and one record; with the default ceiling a sandbox
\* that always fails gives no success, retry_count 3 and four records.
C8_HistoryShape ==
    HealReturned =>
        LET h == healing.history
        IN  /\ Len(h) = healing.retry_count + 1
            /\ \A i \in 1..Len(h) : h[i].attempt = i - 1
            /\ h[1].test_result.success =>
                   healing.success /\ healing.retry_count = 0 /\ Len(h) = 1
            /\ (max_retries = 3 /\ AllFailed(h)) =>
                   ~healing.success /\ healing.retry_count = 3 /\ Len(h) = 4

\* four records, each of a failed run, the last one a timeout
C8_Witness ==
    /\ HealReturned
    /\ Len(healing.history) = 4
    /\ ~healing.success
    /\ healing.history[4].attempt = 3
    /\ healing.history[4].test_result.stderr = "timeout"

\* C9: final_code of every HealingResult is the code of the last attempt
\* record, also when the ceiling is exhausted.
C9_FinalCodeIsLastAttempt ==
    HealReturned =>
        healing.final_code = healing.history[Len(healing.history)].code

\* an exhausted session whose last revision is not the code heal was given
C9_Witness ==
    /\ HealReturned
    /\ ~healing.success
    /\ max_retries >= 1
    /\ healing.retry_count = max_retries
    /\ healing.final_code # heal_args.code
    /\ healing.history[1].code = heal_args.code

SpeedCalled == call # Idle /\ "scan" \in DOMAIN call
PrecisionCalled == call # Idle /\ "lsp" \in DOMAIN call

\* the import statements of the tree that name a file of the tree
ResolvedImports == { e \in imports : e[2] \in files }

\* the files of the tree that import f directly or transitively
Importers(f) ==
    Reach({ <<e[2], e[1]>> : e \in ResolvedImports }, {f}, {f}) \ {f}

ToSet(seq) == { seq[i] : i \in 1..Len(seq) }

\* C3: the impacted files of a changed file F of the graph are F followed by
\* exactly the files that directly or transitively import F.
C3_ImpactedAreImporters ==
    (SpeedCalled /\ call.scan = "ok" /\ call.changed_file \in graph.nodes) =>
        /\ Head(result.impacted_files) = call.changed_file
        /\ ToSet(Tail(result.impacted_files)) = Importers(call.changed_file)

\* ---- two workflow runs in one process -------------------------------------
\* agent.invoke is called twice, for two requests; the engine runs one stage
\* of one run at a time, in any order.  node[i] and state[i] are the next
\* stage and the AgentState of run i.
Runs == 1..2

\* what the collaborators of stage n (analyzer scan, language server, text
\* generator, sandbox, healer, synchronizer) can answer a run in state s
Responses(n, s) ==
    CASE n = START -> {"invoke"}
      [] n = "speed_analysis" -> {"ok", "raise"}
      [] n = "precision_analysis" -> {"ok", "lsp_raise", "raise"}
      [] n = "code_generation" -> Codes
      [] n = "test_generation" -> Tests
      [] n = "execute_tests" -> Outcome
      [] n = "self_healing" ->
            HealReturns[DOCKER_AVAILABLE, Get(s, "generated_code", 0),
                        Get(s, "generated_tests", 0)]
      [] n = "doc_sync" -> BOOLEAN
      [] OTHER -> {}

Moved(s, update, next) == [state |-> Merge(s, update), node |-> next]

\* Stage n of a run in state s, its collaborator answering x: the state and
\* the next stage of the run.  Every stage builds its own analyzer, healer,
\* sandbox and synchronizer, and returns a new dict.
StageStep(n, s, x) ==
    CASE n = START -> [state |-> s, node |-> route_by_mode(s)]
      [] n = "speed_analysis" ->
            Moved(s, speed_analysis_node(s, files, imports,
                                         TREE_SITTER_AVAILABLE, x),
                  "code_generation")
      [] n = "precision_analysis" ->
            LET update == precision_analysis_node(s, LSP_AVAILABLE, x)
            IN  Moved(s, update, AfterPrecision(Merge(s, update)))
      [] n = "code_generation" ->
            Moved(s, code_generation_node(s, x), "test_generation")
      [] n = "test_generation" ->
            Moved(s, test_generation_node(s, x), "execute_tests")
      [] n = "execute_tests" ->
            LET r == execute(DOCKER_AVAILABLE, x)
                update == execute_tests_node(s, r)
            IN  IF HEALING_AVAILABLE /\ r.raised
                THEN [state |-> s, node |-> "raised"]
                ELSE Moved(s, update, AfterExecuteTests(Merge(s, update)))
      [] n = "self_healing" ->
            IF HEALING_AVAILABLE /\ x.raised
            THEN [state |-> s, node |-> "raised"]
            ELSE Moved(s, self_healing_node(s, x), "execute_tests")
      [] n = "doc_sync" -> Moved(s, doc_sync_node(s, x), END)

\* (variant: the engine keeps one state dict for all runs)
RunStep_SharedState(i, t) ==
    /\ node' = [node EXCEPT ![i] = t.node]
    /\ state' = [j \in Runs |-> t.state]
    /\ UNCHANGED frame

\* The engine merges the update into the state of the run that ran the stage.
RunStep(i, t) ==
    /\ node' = [node EXCEPT ![i] = t.node]
    /\ state' = [state EXCEPT ![i] = t.state]
    /\ UNCHANGED frame

\* Run i runs stage n.  Runs are explored while the error_logs of each has at
\* most MaxLogTwoRuns entries.
RunStage(i, n) ==
    \E x \in Responses(n, state[i]) :
        LET t == StageStep(n, state[i], x)
        IN  /\ Len(Get(t.state, "error_logs", <<>>)) <= MaxLogTwoRuns
            /\ RunStep(i, t)

\* two invokes in a process with every optional module installed: a SPEED
\* request and a PRECISION request that name different files
InitTwoRuns ==
    /\ files = ChainTree.files /\ imports = ChainTree.imports
    /\ TREE_SITTER_AVAILABLE = TRUE /\ LSP_AVAILABLE = TRUE
    /\ DOCKER_AVAILABLE = TRUE /\ ANALYZERS_AVAILABLE = TRUE
    /\ HEALING_AVAILABLE = TRUE /\ DOC_SYNC_AVAILABLE = TRUE
    /\ analyzer = "none" /\ graph = EmptyGraph /\ call = Idle /\ result = NoResult
    /\ NoTools
    /\ max_retries = 3 /\ heal_args = Idle /\ healing = Idle
    /\ node = [i \in Runs |-> START]
    /\ \E f \in [Runs -> File] :
         /\ f[1] < f[2]
         /\ state = [i \in Runs |->
                       [mode |-> IF i = 1 THEN "SPEED" ELSE "PRECISION",
                        changed_file |-> f[i], impacted_files |-> <<>>,
                        retry_count |-> 0, error_logs |-> <<>>]]

RunInvoke(i) == node[i] = START /\ RunStage(i, START)
RunSpeedAnalysis(i) == node[i] = "speed_analysis" /\ RunStage(i, "speed_analysis")
RunPrecisionAnalysis(i) == node[i] = "precision_analysis" /\ RunStage(i, "precision_analysis")
RunCodeGeneration(i) == node[i] = "code_generation" /\ RunStage(i, "code_generation")
RunTestGeneration(i) == node[i] = "test_generation" /\ RunStage(i, "test_generation")
RunExecuteTests(i) == node[i] = "execute_tests" /\ RunStage(i, "execute_tests")
RunSelfHealing(i) == node[i] = "self_healing" /\ RunStage(i, "self_healing")
RunDocSync(i) == node[i] = "doc_sync" /\ RunStage(i, "doc_sync")

NextTwoRuns ==
    \E i \in Runs :
        \/ RunInvoke(i)
        \/ RunSpeedAnalysis(i)
        \/ RunPrecisionAnalysis(i)
        \/ RunCodeGeneration(i)
        \/ RunTestGeneration(i)
        \/ RunExecuteTests(i)
        \/ RunSelfHealing(i)
        \/ RunDocSync(i)

SpecTwoRuns == InitTwoRuns /\ [][NextTwoRuns]_vars

\* ---- planner.py: Plan, get_next_step, mark_step_complete -------------------
\* Planner._extract_dependencies; mentions are the step numbers the
\* description names after "depends on", "after" or "requires", in order
Planner_extract_dependencies(mentions, current_step) ==
    LET dependencies == SelectSeq(mentions, LAMBDA dep_id : dep_id < current_step)
    IN  IF dependencies = <<>> /\ current_step > 1
        THEN <<current_step - 1>>
        ELSE dependencies

\* Step(id=step_id, ..., depends_on=depends_on), status "pending"
PlanStep(step_id, depends_on) ==
    [id |-> step_id, depends_on |-> depends_on, status |-> "pending"]

\* Planner._parse_plan; matches are the "STEP N: [SubAgent] description"
\* blocks of the plan text in the order they appear
_parse_plan(matches) ==
    [k \in 1..Len(matches) |->
        PlanStep(matches[k].step_id,
                 Planner_extract_dependencies(matches[k].mentions,
                                              matches[k].step_id))]

\* Plan(steps=steps, total_steps=len(steps))
Plan(steps) ==
    [steps |-> steps, total_steps |-> Len(steps), completed_steps |-> 0]

\* all(plan.steps[dep_id - 1].status == "completed" for dep_id in depends_on),
\* with Python's list indexing: "True", "False" or "IndexError"
RECURSIVE deps_met(_, _)
deps_met(steps, depends_on) ==
    IF depends_on = <<>> THEN "True"
    ELSE LET i == Head(depends_on) - 1
         IN  IF i >= Len(steps) \/ i < 0 - Len(steps) THEN "IndexError"
             ELSE LET dep == steps[(IF i < 0 THEN i + Len(steps) ELSE i) + 1]
                  IN  IF dep.status = "completed"
                      THEN deps_met(steps, Tail(depends_on))
                      ELSE "False"

NoStep == [returned |-> "None"]

\* get_next_step, from the k-th step of the list on: the position of the step
\* it returns, None, or the IndexError that leaves it
RECURSIVE get_next_step_from(_, _)
get_next_step_from(p, k) ==
    IF k > Len(p.steps) THEN NoStep
    ELSE IF p.steps[k].status = "pending"
    THEN LET met == deps_met(p.steps, p.steps[k].depends_on)
         IN  IF met = "IndexError" THEN [returned |-> "IndexError"]
             ELSE IF met = "True" THEN [returned |-> "step", index |-> k]
             ELSE get_next_step_from(p, k + 1)
    ELSE get_next_step_from(p, k + 1)

get_next_step(p) == get_next_step_from(p, 1)

\* mark_step_complete: the first step with the id is marked, and counted
mark_step_complete(p, step_id) ==
    LET hits == { k \in 1..Len(p.steps) : p.steps[k].id = step_id }
    IN  IF hits = {} THEN p
        ELSE LET k == CHOOSE h \in hits : \A g \in hits : h <= g
             IN  [p EXCEPT !.steps[k].status = "completed",
                           !.completed_steps = @ + 1]

\* the blocks a plan text can hold
Matches ==
    UNION { [1..n -> [step_id : 1..MaxStepId,
                      mentions : UNION { [1..m -> 1..MaxStepId] : m \in 0..MaxMentions }]] :
            n \in 0..MaxSteps }

\* Planner.create_plan returned a plan
InitPlanner ==
    /\ files = {} /\ imports = {}
    /\ TREE_SITTER_AVAILABLE = TRUE /\ LSP_AVAILABLE = TRUE
    /\ DOCKER_AVAILABLE = TRUE /\ ANALYZERS_AVAILABLE = TRUE
    /\ HEALING_AVAILABLE = TRUE /\ DOC_SYNC_AVAILABLE = TRUE
    /\ analyzer = "none" /\ graph = EmptyGraph /\ call = Idle /\ result = NoResult
    /\ max_retries = 0 /\ heal_args = Idle /\ healing = Idle
    /\ node = "idle" /\ state = Idle
    /\ \E matches \in Matches : plan = Plan(_parse_plan(matches))
    /\ next_step = Idle
    /\ todo_list = Idle /\ task_files = Idle /\ agent_run = Idle
    /\ file_content = Idle /\ edit_reply = Idle

planFrame ==
    <<envVars, analyzerVars, healVars, workflowVars,
      todo_list, task_files, agent_run, file_content, edit_reply>>

\* get_next_step(plan)
GetNextStep ==
    /\ next_step' = get_next_step(plan)
    /\ UNCHANGED <<plan, planFrame>>

\* mark_step_complete(plan, step_id, result), for a known or an unknown id;
\* what get_next_step returned was returned for the plan before the call
MarkStepComplete ==
    /\ plan.completed_steps < MaxMarks
    /\ \E step_id \in 1..MaxStepId :
         plan' = mark_step_complete(plan, step_id)
    /\ next_step' = Idle
    /\ UNCHANGED planFrame

NextPlanner == GetNextStep \/ MarkStepComplete

SpecPlanner == InitPlanner /\ [][NextPlanner]_vars

\* The executor of a plan: it takes get_next_step and marks the step it
\* returned complete, until get_next_step returns None or raises.
ExecuteNextStep ==
    /\ plan.completed_steps < MaxMarks
    /\ LET r == get_next_step(plan)
       IN  /\ r.returned = "step"
           /\ plan' = mark_step_complete(plan, plan.steps[r.index].id)
           /\ next_step' = r
    /\ UNCHANGED planFrame

SpecExecutePlan == InitPlanner /\ [][ExecuteNextStep]_vars

FairSpecExecutePlan == SpecExecutePlan /\ WF_vars(ExecuteNextStep)

\* ---- deep_agent_core.py: DeepAgent.run -------------------------------------
\* Task(id, description, task_type, requires_subagent, subagent_role); obj
\* tells the Task objects of a run apart (the order they were created in).
Task(obj, id, task_type, subagent_role) ==
    [obj |-> obj, id |-> id, task_type |-> task_type,
     requires_subagent |-> subagent_role # None, subagent_role |-> subagent_role,
     status |-> "pending", result_file |-> NoFile]

\* subagents.py: the registry get_subagent looks the role up in
SUBAGENTS == {"analysis", "coding", "documentation", "filesystem"}

\* TodoList.add
TodoAdd(todo, task) == [todo EXCEPT !.tasks = Append(@, task)]

\* (variant: the list is a stack)
TodoPop_Last(todo) ==
    [task |-> [todo.tasks[Len(todo.tasks)] EXCEPT !.status = "in_progress"],
     todo |-> [todo EXCEPT !.tasks = SubSeq(@, 1, Len(@) - 1)]]

\* TodoList.pop on a list that is not empty: the task and the list left
TodoPop(todo) ==
    [task |-> [Head(todo.tasks) EXCEPT !.status = "in_progress"],
     todo |-> [todo EXCEPT !.tasks = Tail(@)]]

\* TodoList.mark_complete
TodoMarkComplete(todo, task, result_file) ==
    [todo EXCEPT !.completed =
        Append(@, [task EXCEPT !.status = "completed",
                               !.result_file = result_file])]

\* DeepAgent._needs_additional_work; a result tells whether its text names an
\* error or is short (alarming), and whether it holds the word "files"
_needs_additional_work(task, result_str) == result_str.alarming

\* (variant: a follow-up is suggested after a task of any type)
_suggest_additional_tasks_AnyType(task, result_str, obj) ==
    IF result_str.files
    THEN <<Task(obj, 100 + 0, "doc", "documentation")>>
    ELSE <<>>

\* DeepAgent._suggest_additional_tasks; obj is the next Task object
_suggest_additional_tasks(task, result_str, obj) ==
    IF task.task_type = "analyze" /\ result_str.files
    THEN <<Task(obj, 100 + 0, "doc", "documentation")>>
    ELSE <<>>

\* the name of the file _execute_task writes: task_<id>_result.txt
ResultFile(task) == task.id

\* Path.write_text
WriteText(fs, name, text) == [n \in DOMAIN fs \cup {name} |-> IF n = name THEN text ELSE fs[n]]

\* DeepAgent._consolidate_results: for each completed task, what its result
\* file holds
_consolidate_results(completed, fs) ==
    [k \in 1..Len(completed) |->
        IF completed[k].result_file # NoFile /\ completed[k].result_file \in DOMAIN fs
        THEN fs[completed[k].result_file]
        ELSE [none |-> TRUE]]

\* the todo lists _parse_todo_list makes of a plan text: tasks with different
\* ids, of a type that is analyzed further or not, run directly, by a
\* registered SubAgent or by a role the registry does not know
PlanTypes == {"analyze", "code"}
PlanRoles == {None, "analysis", "yes"}

PlannedTasks ==
    UNION { { t \in [1..n -> [id : 1..MaxTaskId, task_type : PlanTypes,
                              subagent_role : PlanRoles]] :
                \A j, k \in 1..n : j # k => t[j].id # t[k].id } :
            n \in 0..MaxTasks }

\* _parse_todo_list
_parse_todo_list(planned) ==
    [tasks |-> [k \in 1..Len(planned) |->
                   Task(k, planned[k].id, planned[k].task_type,
                        planned[k].subagent_role)],
     completed |-> <<>>]

\* DeepAgent.run has made its plan and stands before the while loop
InitDeepAgent ==
    /\ files = {} /\ imports = {}
    /\ TREE_SITTER_AVAILABLE = TRUE /\ LSP_AVAILABLE = TRUE
    /\ DOCKER_AVAILABLE = TRUE /\ ANALYZERS_AVAILABLE = TRUE
    /\ HEALING_AVAILABLE = TRUE /\ DOC_SYNC_AVAILABLE = TRUE
    /\ analyzer = "none" /\ graph = EmptyGraph /\ call = Idle /\ result = NoResult
    /\ max_retries = 0 /\ heal_args = Idle /\ healing = Idle
    /\ node = "idle" /\ state = Idle
    /\ plan = Idle /\ next_step = Idle
    /\ \E planned \in PlannedTasks :
         /\ todo_list = _parse_todo_list(planned)
         /\ agent_run = [at |-> "loop", step |-> 0, planned |-> Len(planned),
                         objects |-> Len(planned), report |-> <<>>]
    /\ task_files = [n \in {} |-> 0]
    /\ file_content = Idle /\ edit_reply = Idle

deepFrame ==
    <<envVars, analyzerVars, healVars, workflowVars, plan, next_step,
      file_content, edit_reply>>

\* One turn of the while loop: pop, _execute_task, mark_complete and the
\* self-correction.  get_subagent raises ValueError for a role that is not
\* registered, which leaves run.
ExecuteTask ==
    /\ agent_run.at = "loop"
    /\ todo_list.tasks # <<>>
    /\ LET popped == TodoPop(todo_list)
           current_task == popped.task
       IN  IF current_task.requires_subagent
              /\ current_task.subagent_role \notin SUBAGENTS
           THEN /\ todo_list' = popped.todo
                /\ agent_run' = [agent_run EXCEPT !.at = "raised", !.step = @ + 1]
                /\ UNCHANGED task_files
           ELSE \E alarming \in BOOLEAN, names_files \in BOOLEAN :
                  LET result_str == [by |-> current_task.obj, alarming |-> alarming,
                                 files |-> names_files]
                      result_file == ResultFile(current_task)
                      marked == TodoMarkComplete(popped.todo, current_task, result_file)
                      new_tasks ==
                          IF _needs_additional_work(current_task, result_str)
                          THEN _suggest_additional_tasks(current_task, result_str,
                                                         agent_run.objects + 1)
                          ELSE <<>>
                  IN  /\ task_files' = WriteText(task_files, result_file, result_str)
                      /\ todo_list' = IF new_tasks = <<>> THEN marked
                                      ELSE TodoAdd(marked, new_tasks[1])
                      /\ agent_run' = [agent_run EXCEPT
                                          !.step = @ + 1,
                                          !.objects = @ + Len(new_tasks)]
    /\ UNCHANGED deepFrame

\* The list is empty: the loop ends and the report is made.
Consolidate ==
    /\ agent_run.at = "loop"
    /\ todo_list.tasks = <<>>
    /\ agent_run' = [agent_run EXCEPT
                        !.at = "returned",
                        !.report = _consolidate_results(todo_list.completed,
                                                        task_files)]
    /\ UNCHANGED <<todo_list, task_files, deepFrame>>

NextDeepAgent == ExecuteTask \/ Consolidate

SpecDeepAgent == InitDeepAgent /\ [][NextDeepAgent]_vars

\* ---- filesystem_tools.py: _edit_file_impl -----------------------------------
\* Texts are sequences of characters.
Chars == {"a", "b"}
Texts(n) == UNION { [1..m -> Chars] : m \in 0..n }

\* t occurs in s at position i
OccursAt(s, t, i) == i + Len(t) - 1 <= Len(s) /\ SubSeq(s, i, i + Len(t) - 1) = t

\* search_text in content
Contains(s, t) == \E i \in 1..(Len(s) + 1) : OccursAt(s, t, i)

\* str.find: the first position of t in s, for a t that occurs in s
Find(s, t) == CHOOSE i \in 1..(Len(s) + 1) :
                 OccursAt(s, t, i) /\ \A j \in 1..(i - 1) : ~OccursAt(s, t, j)

\* content.split(search_text), for a search_text that is not empty
RECURSIVE split(_, _)
split(s, sep) ==
    IF ~Contains(s, sep) THEN <<s>>
    ELSE LET i == Find(s, sep)
         IN  <<SubSeq(s, 1, i - 1)>> \o split(SubSeq(s, i + Len(sep), Len(s)), sep)

\* search_text.join(parts)
RECURSIVE join(_, _)
join(sep, parts) ==
    IF parts = <<>> THEN <<>>
    ELSE IF Len(parts) = 1 THEN parts[1]
    ELSE parts[1] \o sep \o join(sep, Tail(parts))

\* Python's slice bound for a list of n items
SliceAt(n, k) == IF k < 0 THEN (IF n + k < 0 THEN 0 ELSE n + k)
                 ELSE IF k > n THEN n ELSE k

\* parts[:k] and parts[k:]
SliceTo(parts, k) == SubSeq(parts, 1, SliceAt(Len(parts), k))
SliceFrom(parts, k) == SubSeq(parts, SliceAt(Len(parts), k) + 1, Len(parts))

NoSuchFile == [exists |-> FALSE]
TextFile(text) == [exists |-> TRUE, text |-> text]

\* _edit_file_impl: the file after the call and the reply.  io = "raise": an
\* exception while the file is read, which the except clause turns into a
\* reply.
_edit_file_impl(file, search_text, replace_text, occurrence, io) ==
    IF ~file.exists THEN [file |-> file, reply |-> "Error: File not found"]
    ELSE IF io = "raise" THEN [file |-> file, reply |-> "Error"]
    ELSE IF ~Contains(file.text, search_text)
    THEN [file |-> file, reply |-> "Error: Search text not found"]
    ELSE IF occurrence = -1
    THEN [file |-> TextFile(join(replace_text, split(file.text, search_text))),
          reply |-> "Replaced"]
    ELSE LET parts == split(file.text, search_text)
         IN  IF Len(parts) <= occurrence
             THEN [file |-> file, reply |-> "Error: Occurrence not found"]
             ELSE [file |-> TextFile(join(search_text, SliceTo(parts, occurrence))
                                     \o replace_text
                                     \o join(search_text, SliceFrom(parts, occurrence))),
                   reply |-> "Replaced"]

\* a file of the workspace, or none under the path
InitEditFile ==
    /\ files = {} /\ imports = {}
    /\ TREE_SITTER_AVAILABLE = TRUE /\ LSP_AVAILABLE = TRUE
    /\ DOCKER_AVAILABLE = TRUE /\ ANALYZERS_AVAILABLE = TRUE
    /\ HEALING_AVAILABLE = TRUE /\ DOC_SYNC_AVAILABLE = TRUE
    /\ analyzer = "none" /\ graph = EmptyGraph /\ call = Idle /\ result = NoResult
    /\ max_retries = 0 /\ heal_args = Idle /\ healing = Idle
    /\ node = "idle" /\ state = Idle
    /\ plan = Idle /\ next_step = Idle
    /\ todo_list = Idle /\ task_files = Idle /\ agent_run = Idle
    /\ file_content \in {NoSuchFile} \cup { TextFile(t) : t \in Texts(MaxContent) }
    /\ edit_reply = Idle

editFrame ==
    <<envVars, analyzerVars, healVars, workflowVars, plan, next_step,
      todo_list, task_files, agent_run>>

\* edit_file(file_path, search_text, replace_text, occurrence).  Files are
\* explored while they have at most MaxContent characters.
EditFile ==
    /\ \E search_text \in Texts(MaxSearch) \ {<<>>},
          replace_text \in Texts(MaxReplace),
          occurrence \in (0 - MaxOccurrence)..MaxOccurrence,
          io \in {"ok", "raise"} :
         LET r == _edit_file_impl(file_content, search_text, replace_text,
                                  occurrence, io)
         IN  /\ r.file.exists => Len(r.file.text) <= MaxContent
             /\ file_content' = r.file
             /\ edit_reply' = [search_text |-> search_text,
                               replace_text |-> replace_text,
                               occurrence |-> occurrence, reply |-> r.reply]
    /\ UNCHANGED editFrame

NextEditFile == EditFile

SpecEditFile == InitEditFile /\ [][NextEditFile]_vars

\* C6: when the LSP client library is missing, or the reference lookup
\* raises, PrecisionAnalyzer.analyze returns a result with error set.
C6_UnavailableSetsError ==
    (PrecisionCalled /\ (~LSP_AVAILABLE \/ call.lsp = "raise")) =>
        result.error # None

Tags(s) == { Get(s, "error_logs", <<>>)[i].tag :
                i \in 1..Len(Get(s, "error_logs", <<>>)) }

LastTag(s) ==
    LET logs == Get(s, "error_logs", <<>>)
    IN  IF logs = <<>> THEN "None" ELSE logs[Len(logs)].tag

\* the precise analyzer returned an error or raised
PrecisionErrorTags == {"PRECISION error", "PRECISION analysis error"}

AnalysisMeta(s) == Get(s, "analysis_result", [none |-> TRUE])

\* C4: when precision_analysis ends in an error of the analyzer, the next
\* stage is speed_analysis, which is followed by code_generation; no
\* exception leaves an analysis stage.
C4_FallbackIsTotal ==
    [][ /\ (node = "precision_analysis" /\ LastTag(state') \in PrecisionErrorTags)
            => node' = "speed_analysis"
        /\ node = "speed_analysis" => node' = "code_generation"
        /\ node \in {"precision_analysis", "speed_analysis"} => node' # "raised"
      ]_vars

\* code_generation is reached after the fallback from a failed precise analysis
C4_Witness ==
    /\ node = "code_generation"
    /\ Get(state, "mode", "SPEED") = "PRECISION"
    /\ Tags(state) \cap PrecisionErrorTags # {}
    /\ "should_fallback" \notin DOMAIN AnalysisMeta(state)

\* C5: when the metadata that precision_analysis writes carries an error it
\* carries should_fallback = TRUE, and the stage is followed neither by
\* code_generation nor by the end of the run.
C5_ErrorImpliesFallback ==
    [][ (node = "precision_analysis"
         /\ Get(AnalysisMeta(state'), "error", None) # None)
        => /\ Get(AnalysisMeta(state'), "should_fallback", FALSE)
           /\ node' \notin {"code_generation", END}
      ]_vars

\* C7: a run that asked for PRECISION and whose precise analyzer failed ends
\* with analysis_result.mode = SPEED and without should_fallback.
C7_FinalModeIsSpeed ==
    (/\ node = END
     /\ Get(state, "mode", "SPEED") = "PRECISION"
     /\ Tags(state) \cap PrecisionErrorTags # {})
    => /\ Get(AnalysisMeta(state), "mode", None) = "SPEED"
       /\ "should_fallback" \notin DOMAIN AnalysisMeta(state)

\* C10: retry_count of the workflow state is within 0..3 in every state of a
\* run that started with retry_count = 0.
C10_RetryCountInState ==
    /\ Get(state, "retry_count", 0) >= 0
    /\ Get(state, "retry_count", 0) <= 3

Attempts(s) ==
    Cardinality({ i \in 1..Len(Get(s, "error_logs", <<>>)) :
                    Get(s, "error_logs", <<>>)[i].tag = "Attempt" })

\* self_healing ran more than once (more regenerations than one session
\* makes) and the last session exhausted its ceiling
C10_Witness ==
    /\ Get(state, "retry_count", 0) = 3
    /\ Attempts(state) > 3

\* C2: every run reaches doc_sync and then the end, whatever the sandbox
\* answers; stated for runs in which the modules of the stages are installed.
C2_RunTerminates ==
    (HEALING_AVAILABLE /\ DOCKER_AVAILABLE /\ DOC_SYNC_AVAILABLE)
        => (<>(node = "doc_sync") /\ <>(node = END))

AnalysisStages == {"speed_analysis", "precision_analysis"}

\* C11: the entry routing, both analysis stages and the fallback routing
\* leave retry_count as it is, so that code_generation is entered with the
\* retry_count the run started with (0).
C11_FallbackKeepsRetryCount ==
    [][ /\ node \in AnalysisStages \cup {START}
            => /\ Get(state', "retry_count", -1) = Get(state, "retry_count", -1)
        /\ node' = "code_generation" => Get(state', "retry_count", -1) = 0
      ]_vars

\* code_generation entered from speed_analysis after the precise analyzer
\* failed, with the count of the start
C11_Witness ==
    /\ node = "code_generation"
    /\ Tags(state) \cap PrecisionErrorTags # {}
    /\ Get(AnalysisMeta(state), "mode", None) = "SPEED"
    /\ Get(state, "retry_count", -1) = 0

\* C12: whenever code_generation is the next stage, impacted_files contains
\* the changed file; a failed analysis leaves the singleton of the changed
\* file, never the empty list.
C12_ImpactedContainChanged ==
    node = "code_generation" =>
        /\ Get(state, "impacted_files", <<>>) # <<>>
        /\ Get(state, "changed_file", NoFile)
               \in ToSet(Get(state, "impacted_files", <<>>))

LastTestPassed(s) == Get(Get(s, "test_results", [none |-> TRUE]), "success", FALSE)

\* C13: after execute_tests the run goes to doc_sync when the last test
\* result is a success, otherwise to doc_sync when retry_count >= 3, otherwise
\* to self_healing; self_healing is never entered with retry_count >= 3 or
\* after a passing test result.
C13_CheckTestResultRoutes ==
    [][ /\ (node = "execute_tests" /\ node' # "raised")
            => node' = IF LastTestPassed(state') THEN "doc_sync"
                       ELSE IF Get(state', "retry_count", 0) >= 3 THEN "doc_sync"
                       ELSE "self_healing"
        /\ node' = "self_healing"
            => /\ node = "execute_tests"
               /\ ~LastTestPassed(state')
               /\ Get(state', "retry_count", 0) < 3
      ]_vars

\* the run gives up: doc_sync is next after a failed test run at the ceiling
C13_Witness ==
    /\ node = "doc_sync"
    /\ "test_results" \in DOMAIN state
    /\ ~LastTestPassed(state)
    /\ Get(state, "retry_count", 0) = 3

RoutedBy(route) == "route" \in DOMAIN call /\ call.route = route

FallbackSignalled(s) ==
    Get(Get(s, "analysis_result", [none |-> TRUE]), "should_fallback", FALSE)

\* C14: check_precision_fallback sends every state to speed_analysis when
\* should_fallback is signalled, also when impacted_files is non-empty;
\* otherwise to code_generation when impacted_files is non-empty; otherwise
\* to the end.
C14_CheckPrecisionFallbackRoutes ==
    RoutedBy("check_precision_fallback") =>
        /\ FallbackSignalled(state) => node = "speed_analysis"
        /\ (~FallbackSignalled(state) /\ Get(state, "impacted_files", <<>>) # <<>>)
               => node = "code_generation"
        /\ (~FallbackSignalled(state) /\ Get(state, "impacted_files", <<>>) = <<>>)
               => node = END

\* the fallback signal wins over a non-empty list of impacted files
C14_Witness ==
    /\ RoutedBy("check_precision_fallback")
    /\ FallbackSignalled(state)
    /\ Get(state, "impacted_files", <<>>) # <<>>
    /\ node = "speed_analysis"

\* C15: route_by_mode sends the run to precision_analysis exactly when mode
\* is PRECISION; for SPEED, for a missing mode and for any other value it
\* sends the run to speed_analysis.
C15_RouteByMode ==
    RoutedBy("route_by_mode") =>
        /\ node = "precision_analysis"
               <=> ("mode" \in DOMAIN state /\ state.mode = "PRECISION")
        /\ node \in {"precision_analysis", "speed_analysis"}

\* a state without mode is routed to speed_analysis
C15_Witness ==
    /\ RoutedBy("route_by_mode")
    /\ "mode" \notin DOMAIN state
    /\ node = "speed_analysis"

\* the edges of the path analysis -> code_generation -> test_generation ->
\* execute_tests -> (self_healing -> execute_tests)* -> doc_sync -> end
StagePath ==
    { <<START, "speed_analysis">>, <<START, "precision_analysis">>,
      <<"precision_analysis", "speed_analysis">>,
      <<"precision_analysis", "code_generation">>,
      <<"precision_analysis", END>>,
      <<"speed_analysis", "code_generation">>,
      <<"code_generation", "test_generation">>,
      <<"test_generation", "execute_tests">>,
      <<"execute_tests", "self_healing">>,
      <<"execute_tests", "doc_sync">>,
      <<"self_healing", "execute_tests">>,
      <<"doc_sync", END>> }

\* C16: the stages of every run follow the path analysis (each analysis at
\* most once) -> code_generation -> test_generation -> execute_tests ->
\* (self_healing -> execute_tests)* -> doc_sync -> end, self_healing coming
\* only directly after a failing execute_tests, and every run that reached
\* code_generation runs doc_sync, last.
C16_StagesFormPath ==
    /\ [][ /\ <<node, node'>> \in StagePath
           /\ node' = "self_healing" => ~LastTestPassed(state')
         ]_vars
    /\ (node = "code_generation") ~> (node = "doc_sync")

\* C17: when execute_tests or self_healing is reached with generated_code
\* unset, the stage records an error in error_logs and the run halts: no
\* later stage runs.
C17_MissingCodeHalts ==
    [][ (node \in {"execute_tests", "self_healing"}
         /\ "generated_code" \notin DOMAIN state)
        => /\ Len(Get(state', "error_logs", <<>>))
                  = Len(Get(state, "error_logs", <<>>)) + 1
           /\ node' \in {END, "raised"}
      ]_vars

\* the workflow state after execute_tests wrote the result of a sandbox run
\* with the given outcome, retry_count being rc
AfterSandbox(rc, outcome) ==
    LET s == [retry_count |-> rc, error_logs |-> <<>>]
    IN  Merge(s, execute_tests_node(s, execute(TRUE, outcome)))

TimedOut(record) == record.test_result.stderr = "timeout"

\* C18: a sandbox timeout is a failed test result and is handled like a test
\* failure: after execute_tests the run goes to self_healing, or to doc_sync
\* at the ceiling; inside heal it is followed by the next attempt unless the
\* ceiling is reached, where the session ends without success; the call
\* never raises.
C18_TimeoutIsFailure ==
    /\ ~execute(TRUE, "timeout").raised
    /\ ~execute(TRUE, "timeout").success
    /\ \A rc \in 0..(MaxRetriesCfg + 1) :
         /\ AfterExecuteTests(AfterSandbox(rc, "timeout"))
                = IF rc >= 3 THEN "doc_sync" ELSE "self_healing"
         /\ AfterExecuteTests(AfterSandbox(rc, "timeout"))
                = AfterExecuteTests(AfterSandbox(rc, "failed"))
    /\ HealReturned =>
         \A i \in 1..Len(healing.history) :
            TimedOut(healing.history[i]) =>
               /\ ~healing.history[i].test_result.success
               /\ i - 1 < max_retries => /\ Len(healing.history) > i
                                         /\ healing.retry_count >= i
               /\ i - 1 >= max_retries => /\ Len(healing.history) = i
                                          /\ ~healing.success

\* a session whose first run timed out and whose second run passed
C18_Witness ==
    /\ HealReturned
    /\ TimedOut(healing.history[1])
    /\ healing.retry_count = 1
    /\ healing.success

\* C19: when the sandbox is unavailable (container library missing, service
\* down, container error) the sandbox call returns a failed test result and
\* does not raise: no exception leaves execute_tests or self_healing, and
\* execute_tests records a failed result.
C19_SandboxNeverRaises ==
    [][ /\ node \in {"execute_tests", "self_healing"} => node' # "raised"
        /\ (node = "execute_tests" /\ HEALING_AVAILABLE /\ ~DOCKER_AVAILABLE)
            => /\ "test_results" \in DOMAIN state'
               /\ ~LastTestPassed(state')
      ]_vars

\* what the speed_analysis stage returns for changed file f on the workspace
SpeedStage(f, scan) ==
    speed_analysis_node([changed_file |-> f, error_logs |-> <<>>],
                        files, imports, TREE_SITTER_AVAILABLE, scan)

\* C20: SpeedAnalyzer.analyze always returns a result; when building or
\* querying the graph fails the result has impacted_files = [] and error
\* set.  The speed_analysis stage always returns its update, also when the
\* analyzer cannot be constructed, and then with an empty list and an error.
C20_SpeedNeverRaises ==
    /\ SpeedCalled => /\ result # NoResult
                      /\ result.mode_used = "SPEED"
    /\ (SpeedCalled /\ call.scan = "raise")
           => /\ result.impacted_files = <<>>
              /\ result.error # None
    /\ \A f \in File, scan \in {"ok", "raise"} :
          LET update == SpeedStage(f, scan)
          IN  /\ {"impacted_files", "analysis_result"} \subseteq DOMAIN update
              /\ (~TREE_SITTER_AVAILABLE \/ scan = "raise")
                    => /\ update.impacted_files = <<>>
                       /\ Get(update.analysis_result, "error", None) # None

\* an analyze call during which the walk of the tree raised, on an analyzer
\* that had built its graph before
C20_Witness ==
    /\ SpeedCalled
    /\ call.scan = "raise"
    /\ graph.nodes # {}
    /\ result.impacted_files = <<>>
    /\ result.error # None

SpeedReturned == SpeedCalled /\ call.scan = "ok"

\* C21: when the changed file is not a node of the dependency graph the fast
\* analysis returns exactly [changed_file], with no error, whatever the graph
\* contains.
C21_UnknownFileIsSingleton ==
    (SpeedReturned /\ call.changed_file \notin graph.nodes) =>
        /\ result.impacted_files = <<call.changed_file>>
        /\ result.error = None

\* the changed file is unknown to a graph that has edges
C21_Witness ==
    /\ SpeedReturned
    /\ call.changed_file \notin graph.nodes
    /\ graph.edges # {}
    /\ result.impacted_files = <<call.changed_file>>

\* C22: for every import graph, with import cycles and self-imports, the
\* fast analysis returns a list whose first element is the changed file,
\* whose other elements are in sorted order and which has no duplicates.
C22_ImpactedListShape ==
    SpeedReturned =>
        LET l == result.impacted_files
        IN  /\ Len(l) >= 1
            /\ l[1] = call.changed_file
            /\ \A i \in 2..Len(l) : \A j \in 2..Len(l) : i < j => l[i] < l[j]
            /\ \A i \in 1..Len(l) : \A j \in 1..Len(l) : i # j => l[i] # l[j]

\* the changed file lies on an import cycle and has dependents
C22_Witness ==
    /\ SpeedReturned
    /\ call.changed_file
           \in Reach(graph.edges, {call.changed_file}, {})
    /\ Len(result.impacted_files) >= 2

\* the list a newly created analyzer returns on the workspace as it is
FreshImpacted(f) ==
    SpeedAnalyze(EmptyGraph, files, imports, f, "ok").result.impacted_files

\* C23: on an unchanged workspace every analysis of a changed file returns
\* the list a fresh analyzer returns for it, so that two analyses of the same
\* file, by a fresh analyzer or by the same one, return identical lists.
C23_AnalysisIsIdempotent ==
    [][ /\ SpeedReturned' => result'.impacted_files = FreshImpacted(call'.changed_file)
        /\ (SpeedReturned /\ SpeedReturned'
            /\ call'.changed_file = call.changed_file)
               => result'.impacted_files = result.impacted_files
      ]_vars

\* a list with dependents returned by an analyzer whose graph has edges
C23_Witness ==
    /\ SpeedReturned
    /\ graph.edges # {}
    /\ Len(result.impacted_files) >= 2
    /\ result.impacted_files = FreshImpacted(call.changed_file)

\* C24: the graph an analyze call leaves holds no node and no edge that the
\* tree of that moment lacks, whatever was edited and analyzed before on the
\* same analyzer, and the result is the one of a freshly created analyzer.
C24_GraphReflectsCurrentTree ==
    [][ (SpeedReturned' /\ analyzer = "ready" /\ analyzer' = "ready"
         /\ files' = files /\ imports' = imports)
        => /\ graph'.nodes \subseteq files
           /\ graph'.edges \subseteq ResolvedImports
           /\ result'.impacted_files = FreshImpacted(call'.changed_file)
      ]_vars

SandboxRuns(calls) == { i \in 1..Len(calls) : calls[i].fn = "execute" }
FixRequests(calls) == { i \in 1..Len(calls) : calls[i].fn = "_generate_fix" }

\* C26: every sandbox run and every fix request of a healing session is given
\* the tests that were passed to heal, there is one sandbox run per attempt,
\* and final_tests of the result is that input.
C26_TestsAreKept ==
    HealReturned =>
        /\ healing.final_tests = heal_args.tests
        /\ \A i \in 1..Len(healing.calls) : healing.calls[i].tests = heal_args.tests
        /\ Cardinality(SandboxRuns(healing.calls)) = Len(healing.history)

\* a session on tests other than the default whose code was regenerated twice
C26_Witness ==
    /\ HealReturned
    /\ heal_args.tests = 1
    /\ healing.retry_count >= 2
    /\ healing.final_code # heal_args.code
    /\ healing.final_tests = 1

\* C27: a healer with max_retries < 0 runs the sandbox once on the initial
\* code and requests no fix; it returns what a healer with max_retries = 0
\* returns: retry_count 0, the initial code and a history of one record.
C27_NegativeCeilingIsZero ==
    (HealReturned /\ max_retries < 0) =>
        /\ healing.retry_count = 0
        /\ healing.final_code = heal_args.code
        /\ Len(healing.history) = 1
        /\ healing.calls = <<SandboxRequest(heal_args.code, heal_args.tests)>>
        /\ \E o \in Outcome :
              healing = heal(0, TRUE, heal_args.code, heal_args.tests, <<>>, <<o>>)

\* a healer with a negative ceiling whose only sandbox run failed
C27_Witness ==
    /\ HealReturned
    /\ max_retries = -1
    /\ ~healing.success
    /\ Len(healing.history) = 1

\* the session with the same generator answers in which every failed run
\* failed with the same text
SameFlagsSession ==
    LET h == healing.history
    IN  heal(max_retries, TRUE, heal_args.code, heal_args.tests,
             [i \in 1..(Len(h) - 1) |-> h[i + 1].code],
             [i \in 1..Len(h) |-> IF h[i].test_result.success
                                  THEN "passed" ELSE "failed"])

\* C29: the course of heal depends on the success flags of the sandbox runs
\* only: every session makes the same number of attempts and requests and
\* returns the same success and retry_count as the session with the same
\* flags whose failures all carry one text, hence as every session with
\* these flags.
C29_FlowIgnoresFailureText ==
    HealReturned =>
        LET other == SameFlagsSession
        IN  /\ other # Starved
            /\ other.success = healing.success
            /\ other.retry_count = healing.retry_count
            /\ Len(other.history) = Len(healing.history)
            /\ Len(other.calls) = Len(healing.calls)

\* a session that met a timeout, then an unavailable sandbox, then passed
C29_Witness ==
    /\ HealReturned
    /\ healing.success
    /\ healing.retry_count = 2
    /\ healing.history[1].test_result.stderr = "timeout"
    /\ healing.history[2].test_result.stderr = "Docker not available"

\* C30: the k-th fix request (k >= 1) comes after attempt k-1 failed, is given
\* the code and the failure output of attempt k-1, and is followed by one
\* sandbox run, of the revision; a session makes retry_count fix requests.
C30_FixRequestsFollowFailures ==
    HealReturned =>
        /\ Len(healing.calls) = 2 * healing.retry_count + 1
        /\ healing.calls[1].fn = "execute"
        /\ healing.calls[1].code = heal_args.code
        /\ Cardinality(FixRequests(healing.calls)) = healing.retry_count
        /\ \A k \in 1..healing.retry_count :
              LET request == healing.calls[2 * k]
                  run == healing.calls[2 * k + 1]
                  previous == healing.history[k]
                  revision == healing.history[k + 1]
              IN  /\ request.fn = "_generate_fix"
                  /\ request.attempt = k
                  /\ previous.attempt = k - 1
                  /\ ~previous.test_result.success
                  /\ request.code = previous.code
                  /\ request.error_message = previous.test_result.stderr
                  /\ run.fn = "execute"
                  /\ run.code = revision.code

\* the second fix request is given the first revision, which is not the
\* code heal was given
C30_Witness ==
    /\ HealReturned
    /\ healing.retry_count >= 2
    /\ healing.history[2].code # heal_args.code
    /\ healing.calls[4].fn = "_generate_fix"
    /\ healing.calls[4].code = healing.history[2].code

IsPrefix(s, t) == Len(s) <= Len(t) /\ SubSeq(t, 1, Len(s)) = s

\* C28: error_logs is append-only over a workflow run: in every step the
\* error_logs of the state before is a prefix of the error_logs after, the
\* fallback re-run of speed_analysis and repeated self_healing included.
C28_ErrorLogsAppendOnly ==
    [][IsPrefix(Get(state, "error_logs", <<>>),
                Get(state', "error_logs", <<>>))]_vars

\* after the fallback, a second healing session has added its attempts behind
\* those of the first and behind the entry of the precise analysis
C28_Witness ==
    /\ node = "execute_tests"
    /\ Tags(state) \cap PrecisionErrorTags # {}
    /\ "healing_result" \in DOMAIN state
    /\ Len(state.healing_result.error_logs) > 0
    /\ Attempts(state) > Len(state.healing_result.error_logs)
    /\ Get(state, "error_logs", <<>>)[1].tag \in PrecisionErrorTags

LastTestFailed(s) ==
    /\ "test_results" \in DOMAIN s
    /\ ~s.test_results.success

\* C31: a run that reaches the terminal stage with a failing last test result
\* carries the non-convergence signal: healing_result is present with
\* success = FALSE; it never carries healing_result.success = TRUE together
\* with a failing test_results.
C31_FailureIsSignalled ==
    (node = END /\ LastTestFailed(state)) =>
        /\ "healing_result" \in DOMAIN state
        /\ ~state.healing_result.success

\* C32: over a whole workflow run, the code-regeneration requests of all
\* executions of self_healing together (each leaves one "Attempt" entry in
\* error_logs) never exceed the ceiling of 3.
C32_RunRegenerationsWithinCeiling ==
    Attempts(state) <= 3

WithId(p, step_id) == { k \in 1..Len(p.steps) : p.steps[k].id = step_id }

\* C34: get_next_step returns only a step whose status is pending and all of
\* whose depends_on ids are the ids of completed steps, also when the ids of
\* the plan are not 1..n in list order.
C34_NextStepIsReady ==
    (next_step # Idle /\ next_step.returned = "step") =>
        LET step == plan.steps[next_step.index]
        IN  /\ step.status = "pending"
            /\ \A j \in 1..Len(step.depends_on) :
                  \E k \in WithId(plan, step.depends_on[j]) :
                      plan.steps[k].status = "completed"

\* C35: for every plan of _parse_plan, taking get_next_step and marking the
\* returned step complete again and again completes every step.
C35_PlanCompletes ==
    <>(\A k \in 1..Len(plan.steps) : plan.steps[k].status = "completed")

\* C36: after any sequence of mark_step_complete calls, completed_steps is
\* the number of steps whose status is completed, so it lies within
\* 0..total_steps.
C36_CompletedStepsIsCount ==
    /\ plan.completed_steps
         = Cardinality({ k \in 1..Len(plan.steps) : plan.steps[k].status = "completed" })
    /\ plan.completed_steps >= 0
    /\ plan.completed_steps <= plan.total_steps

\* the Task objects of a run that are in the list or completed
KnownTasks == ToSet(todo_list.tasks) \cup ToSet(todo_list.completed)

PlannedAnalyze ==
    Cardinality({ t \in KnownTasks :
                    t.obj <= agent_run.planned /\ t.task_type = "analyze" })

RECURSIVE Occurrences(_, _, _)
Occurrences(s, t, from) ==
    IF \E i \in from..(Len(s) + 1) : OccursAt(s, t, i)
    THEN LET i == CHOOSE i \in from..(Len(s) + 1) :
                     OccursAt(s, t, i) /\ \A j \in from..(i - 1) : ~OccursAt(s, t, j)
         IN  <<i>> \o Occurrences(s, t, i + Len(t))
    ELSE <<>>

\* s with the Len(t) characters at position i replaced by r
Spliced(s, t, r, i) ==
    SubSeq(s, 1, i - 1) \o r \o SubSeq(s, i + Len(t), Len(s))

\* C39: for an occurrence argument k other than -1, edit_file either
\* replaces exactly the k-th occurrence of the search text and leaves every
\* other character as it was, or replies with an error and leaves the file
\* as it was; it never reports success after a change that removed no
\* occurrence of the search text.
C39_EditReplacesKthOrFails ==
    [][edit_reply'.occurrence # -1 =>
         \/ /\ edit_reply'.reply # "Replaced"
            /\ file_content' = file_content
         \/ /\ edit_reply'.reply = "Replaced"
            /\ file_content.exists
            /\ LET at == Occurrences(file_content.text, edit_reply'.search_text, 1)
                   k == edit_reply'.occurrence
               IN  /\ k \in 1..Len(at)
                   /\ file_content'.text
                        = Spliced(file_content.text, edit_reply'.search_text,
                                  edit_reply'.replace_text, at[k])]_vars

====
